---- MODULE Spec2Model ----
(***************************************************************************)
(* Model of src/main.rs: RLP serialisation of legacy, EIP-1559 and         *)
(* EIP-7702 transactions, the EIP-7702 authorization builder, and the      *)
(* build / sign / broadcast run of main.                                   *)
(*                                                                         *)
(* Representation.  A byte string is a sequence of numbers 0..255.  A U256 *)
(* is its big-endian byte string (leading zero bytes allowed, as in        *)
(* U256::from_be_bytes); a u64 / u8 is a natural number.  Option<Address>  *)
(* is <<>> (None) or <<a>> (Some(a)).  keccak256 and secp256k1 are         *)
(* symbolic: a digest is the record [keccak |-> preimage], a sig     *)
(* records the digest and the key it was made with.                        *)
(***************************************************************************)
EXTENDS Integers, Sequences, FiniteSets, TLC

\* ------------------------------------------------------------------ bounds
MaxDataLen == 56
MaxAuths == 2
MaxNonce == 2

\* ------------------------------------------------ byte-string helpers
RECURSIVE Rep(_, _)
Rep(b, n) == IF n = 0 THEN <<>> ELSE <<b>> \o Rep(b, n - 1)

RECURSIVE TrimLeadingZeros(_)
TrimLeadingZeros(b) ==
    IF b = <<>> THEN <<>>
    ELSE IF Head(b) = 0 THEN TrimLeadingZeros(Tail(b))
    ELSE b

RECURSIVE ToBeBytes(_)
ToBeBytes(n) ==
    IF n = 0 THEN <<>> ELSE Append(ToBeBytes(n \div 256), n % 256)

RECURSIVE Concat(_)
Concat(ss) == IF ss = <<>> THEN <<>> ELSE Head(ss) \o Concat(Tail(ss))

\* ------------------------------------------------ alloy_rlp encoders
\* alloy_rlp::Header::encode
HeaderEncode(list, payload_length) ==
    LET code == IF list THEN 192 ELSE 128 IN
    IF payload_length < 56
    THEN <<code + payload_length>>
    ELSE LET len_be == ToBeBytes(payload_length)
         IN  <<code + 55 + Len(len_be)>> \o len_be

\* impl Encodable for [u8]
EncodeBytes(b) ==
    IF Len(b) # 1 \/ b[1] >= 128
    THEN HeaderEncode(FALSE, Len(b)) \o b
    ELSE b

\* impl Encodable for u64 / u8
EncodeUint(n) ==
    IF n = 0 THEN <<128>>
    ELSE IF n < 128 THEN <<n>>
    ELSE LET be == ToBeBytes(n) IN <<128 + Len(be)>> \o be

\* impl Encodable for U256
EncodeU256(u) ==
    LET be == TrimLeadingZeros(u) IN
    IF be = <<>> THEN <<128>>
    ELSE IF Len(be) = 1 /\ be[1] < 128 THEN be
    ELSE <<128 + Len(be)>> \o be

\* impl Encodable for Address (FixedBytes<20>): the 20 bytes as a byte string
EncodeAddress(a) == EncodeBytes(a)

\* Option<Address>
None == <<>>
Some(a) == <<a>>
AddressZero == Rep(0, 20)
UnwrapOrDefault(opt) == IF opt = None THEN AddressZero ELSE opt[1]

\* bytes32_to_u256
bytes32_to_u256(bytes) == bytes

\* ------------------------------------------------ Authorization7702
\* faulty variant: the magic byte emitted in front of the stored entry
AuthorizationEncode_WithMagic(a) ==
    LET buffer == EncodeUint(a.chain_id) \o EncodeAddress(a.address)
                  \o EncodeU256(a.nonce) \o EncodeUint(a.y_parity)
                  \o EncodeU256(a.r) \o EncodeU256(a.s)
    IN  <<5>> \o HeaderEncode(TRUE, Len(buffer)) \o buffer

\* impl Encodable for Authorization7702
AuthorizationEncode(a) ==
    LET buffer == EncodeUint(a.chain_id) \o EncodeAddress(a.address)
                  \o EncodeU256(a.nonce) \o EncodeUint(a.y_parity)
                  \o EncodeU256(a.r) \o EncodeU256(a.s)
    IN  HeaderEncode(TRUE, Len(buffer)) \o buffer

\* faulty variant: the preimage without its magic byte
AuthorizationPreimage_NoMagic(chain_id, address, nonce) ==
    LET buffer == EncodeUint(chain_id) \o EncodeAddress(address)
                  \o EncodeU256(nonce)
    IN  HeaderEncode(TRUE, Len(buffer)) \o buffer

\* the bytes Authorization7702::new hashes (new_buffer)
AuthorizationPreimage(chain_id, address, nonce) ==
    LET buffer == EncodeUint(chain_id) \o EncodeAddress(address)
                  \o EncodeU256(nonce)
    IN  <<5>> \o HeaderEncode(TRUE, Len(buffer)) \o buffer

\* keccak256, symbolic
keccak256(bytes) == [keccak |-> bytes]

\* Secp256k1::sign_ecdsa_recoverable + serialize_compact: the recovery id and
\* the 64 compact bytes are the library's choice, named here by `c`.
SignRecoverable(digest, key, c) ==
    [digest |-> digest, key |-> key, recovery_id |-> c.recovery_id,
     rsig |-> c.rsig]

\* Authorization7702::new, the local `signature` (lines 298-303)
AuthorizationSignature(chain_id, address, nonce, key, c) ==
    LET new_buffer == AuthorizationPreimage(chain_id, address, nonce)
    IN  SignRecoverable(keccak256(new_buffer), key, c)

\* Authorization7702::new, the value returned
AuthorizationNew(chain_id, address, nonce, key, c) ==
    LET sig == AuthorizationSignature(chain_id, address, nonce, key, c)
    IN  [chain_id |-> chain_id, address |-> address, nonce |-> nonce,
         y_parity |-> sig.recovery_id,
         r |-> bytes32_to_u256(SubSeq(sig.rsig, 1, 32)),
         s |-> bytes32_to_u256(SubSeq(sig.rsig, 33, 64))]

\* impl Encodable for Vec<Authorization7702>
EncodeAuthorizationList(l) ==
    LET payload == Concat([i \in 1..Len(l) |-> AuthorizationEncode(l[i])])
    IN  HeaderEncode(TRUE, Len(payload)) \o payload

\* ------------------------------------------------ LegacyTransaction
LegacyRlpEncodeUnsigned(self, chain_id) ==
    LET buffer == EncodeU256(self.nonce) \o EncodeU256(self.gas_price)
                  \o EncodeU256(self.gas_limit)
                  \o EncodeAddress(UnwrapOrDefault(self.to))
                  \o EncodeU256(self.value) \o EncodeBytes(self.data)
                  \o EncodeUint(chain_id) \o EncodeUint(0) \o EncodeUint(0)
    IN  HeaderEncode(TRUE, Len(buffer)) \o buffer

\* faulty variant: v written after r and s
LegacyRlpEncodeSigned_VLast(self) ==
    LET buffer == EncodeU256(self.nonce) \o EncodeU256(self.gas_price)
                  \o EncodeU256(self.gas_limit)
                  \o EncodeAddress(UnwrapOrDefault(self.to))
                  \o EncodeU256(self.value) \o EncodeBytes(self.data)
                  \o EncodeU256(self.r) \o EncodeU256(self.s) \o EncodeUint(self.v)
    IN  HeaderEncode(TRUE, Len(buffer)) \o buffer

LegacyRlpEncodeSigned(self) ==
    LET buffer == EncodeU256(self.nonce) \o EncodeU256(self.gas_price)
                  \o EncodeU256(self.gas_limit)
                  \o EncodeAddress(UnwrapOrDefault(self.to))
                  \o EncodeU256(self.value) \o EncodeBytes(self.data)
                  \o EncodeUint(self.v) \o EncodeU256(self.r) \o EncodeU256(self.s)
    IN  HeaderEncode(TRUE, Len(buffer)) \o buffer

\* ------------------------------------------------ Eip1559Transaction
Eip1559RlpInternal(self) ==
    EncodeUint(self.chain_id) \o EncodeU256(self.nonce)
    \o EncodeU256(self.max_priority_fee_per_gas)
    \o EncodeU256(self.max_fee_per_gas) \o EncodeU256(self.gas_limit)
    \o (IF self.to # None THEN EncodeAddress(self.to[1]) ELSE EncodeBytes(<<>>))
    \o EncodeU256(self.value) \o EncodeBytes(self.data)
    \o HeaderEncode(TRUE, 0)

Eip1559RlpEncodeUnsigned(self) ==
    LET buffer == Eip1559RlpInternal(self)
    IN  <<2>> \o HeaderEncode(TRUE, Len(buffer)) \o buffer

Eip1559RlpEncodeSigned(self) ==
    LET buffer == Eip1559RlpInternal(self) \o EncodeUint(self.y_parity)
                  \o EncodeU256(self.r) \o EncodeU256(self.s)
    IN  <<2>> \o HeaderEncode(TRUE, Len(buffer)) \o buffer

\* ------------------------------------------------ Eip7702Transaction
Eip7702RlpInternal(self) ==
    EncodeUint(self.chain_id) \o EncodeU256(self.nonce)
    \o EncodeU256(self.max_priority_fee_per_gas)
    \o EncodeU256(self.max_fee_per_gas) \o EncodeU256(self.gas_limit)
    \o (IF self.to # None THEN EncodeAddress(self.to[1]) ELSE EncodeBytes(<<>>))
    \o EncodeU256(self.value) \o EncodeBytes(self.data)
    \o HeaderEncode(TRUE, 0)
    \o EncodeAuthorizationList(self.authorization_list)

\* faulty variant: the type byte not pushed
Eip7702RlpEncodeUnsigned_NoTypeByte(self) ==
    LET buffer == Eip7702RlpInternal(self)
    IN  HeaderEncode(TRUE, Len(buffer)) \o buffer

Eip7702RlpEncodeUnsigned(self) ==
    LET buffer == Eip7702RlpInternal(self)
    IN  <<4>> \o HeaderEncode(TRUE, Len(buffer)) \o buffer

\* faulty variant: the type byte written inside the list and counted by its
\* header
Eip7702RlpEncodeSigned_TypeByteInsideList(self) ==
    LET buffer == <<4>> \o Eip7702RlpInternal(self) \o EncodeUint(self.y_parity)
                  \o EncodeU256(self.r) \o EncodeU256(self.s)
    IN  HeaderEncode(TRUE, Len(buffer)) \o buffer

Eip7702RlpEncodeSigned(self) ==
    LET buffer == Eip7702RlpInternal(self) \o EncodeUint(self.y_parity)
                  \o EncodeU256(self.r) \o EncodeU256(self.s)
    IN  <<4>> \o HeaderEncode(TRUE, Len(buffer)) \o buffer

\* ------------------------------------------------ main: signature embedding
\* faulty variant: the pre-EIP-155 v
EmbedLegacy_PreEip155(t, sig, chain_id) ==
    [t EXCEPT !.r = bytes32_to_u256(SubSeq(sig.rsig, 1, 32)),
               !.s = bytes32_to_u256(SubSeq(sig.rsig, 33, 64)),
               !.v = sig.recovery_id + 27]

\* main, legacy branch: lines 444-449
EmbedLegacy(t, sig, chain_id) ==
    [t EXCEPT !.r = bytes32_to_u256(SubSeq(sig.rsig, 1, 32)),
               !.s = bytes32_to_u256(SubSeq(sig.rsig, 33, 64)),
               !.v = sig.recovery_id + (2 * chain_id) + 35]

\* faulty variant: the chain id folded into yParity as for a legacy v
Embed1559_FoldedChainId(t, sig) ==
    [t EXCEPT !.r = bytes32_to_u256(SubSeq(sig.rsig, 1, 32)),
               !.s = bytes32_to_u256(SubSeq(sig.rsig, 33, 64)),
               !.y_parity = sig.recovery_id + (2 * t.chain_id) + 35]

\* main, 1559 branch: lines 478-481
Embed1559(t, sig) ==
    [t EXCEPT !.r = bytes32_to_u256(SubSeq(sig.rsig, 1, 32)),
               !.s = bytes32_to_u256(SubSeq(sig.rsig, 33, 64)),
               !.y_parity = sig.recovery_id]

\* main, 7702 branch: lines 531-534
Embed7702(t, sig) ==
    [t EXCEPT !.r = bytes32_to_u256(SubSeq(sig.rsig, 1, 32)),
               !.s = bytes32_to_u256(SubSeq(sig.rsig, 33, 64)),
               !.y_parity = sig.recovery_id]

\* ------------------------------------------------ values used below
\* U256::from(n) for a u64 n
U256From(n) == ToBeBytes(n)

ChainId == 1337
GasPrice == 1000000000
GasLimit == 21000
GasLimit7702 == 46000
\* U256::from(1_000_000_000_000_000_000u64), 0x0de0b6b3a7640000
OneEth == <<13, 224, 182, 179, 167, 100, 0, 0>>
AddrLegacyTo == Rep(170, 20)
AddrTypedTo == Rep(170, 19) \o <<187>>
\* 0x4F747741EF10551969F9688a8264FC6bb337fA5f
AddrDefaultDelegate ==
    <<79, 116, 119, 65, 239, 16, 85, 25, 105, 249,
      104, 138, 130, 100, 252, 107, 179, 55, 250, 95>>

\* ------------------------------------------------ input spaces
AddrWithFive == <<0, 5>> \o Rep(5, 18)
U64Samples == {0, 1, ChainId}
NonceSamples == {<<>>, <<5>>}
FeeSamples == {U256From(GasPrice), <<128>>}
ValueSamples == {OneEth, <<0, 127>>}
ToSamples == {None, Some(AddrLegacyTo), Some(AddrWithFive)}
TypedToSamples == {None, Some(AddrTypedTo), Some(AddrWithFive)}
DataSamples ==
    {<<>>, <<5>>, <<128>>, Rep(171, MaxDataLen - 1), Rep(171, MaxDataLen)}
AccessListSamples == {<<>>, <<[address |-> AddrLegacyTo, keys |-> <<OneEth>>]>>}
RSamples == {Rep(17, 32), Rep(0, 31) \o <<5>>}
SSamples == {Rep(34, 32), Rep(0, 30) \o <<1, 0>>}
ParitySamples == {0, 1, 128}
KeySamples == {"key1", "key2"}

\* what sign_ecdsa_recoverable + serialize_compact can return
SigChoices ==
    {[recovery_id |-> i, rsig |-> r \o s] :
        i \in {0, 1}, r \in RSamples, s \in SSamples}

AuthSamples ==
    {AuthorizationNew(0, AddrDefaultDelegate, <<>>, "key2",
                      [recovery_id |-> 1, rsig |-> Rep(17, 32) \o Rep(34, 32)]),
     [chain_id |-> ChainId, address |-> AddrWithFive, nonce |-> <<5>>,
      y_parity |-> 0, r |-> Rep(0, 31) \o <<5>>, s |-> <<7>>]}

RECURSIVE SeqsUpTo(_, _)
SeqsUpTo(S, n) ==
    IF n = 0 THEN {<<>>}
    ELSE LET shorter == SeqsUpTo(S, n - 1)
         IN  shorter \cup {Append(q, x) : q \in shorter, x \in S}

AuthListSamples == SeqsUpTo(AuthSamples, MaxAuths)

LegacyTxs ==
    [nonce : NonceSamples, gas_price : FeeSamples,
     gas_limit : {U256From(GasLimit)}, to : ToSamples, value : ValueSamples,
     data : DataSamples, v : {0, 2 * ChainId + 36}, r : RSamples,
     s : SSamples]

Eip1559Txs ==
    [chain_id : {1, ChainId}, nonce : NonceSamples,
     max_priority_fee_per_gas : {U256From(GasPrice)},
     max_fee_per_gas : {U256From(GasPrice)},
     gas_limit : {U256From(GasLimit)},
     to : TypedToSamples, value : {OneEth},
     data : {<<>>, <<5>>, Rep(171, MaxDataLen)},
     access_list : AccessListSamples, y_parity : ParitySamples,
     r : RSamples, s : {Rep(34, 32)}]

Eip7702Txs ==
    [chain_id : {1, ChainId}, nonce : NonceSamples,
     max_priority_fee_per_gas : {U256From(GasPrice)},
     max_fee_per_gas : {U256From(GasPrice)},
     gas_limit : {U256From(GasLimit7702)},
     to : TypedToSamples, value : {OneEth},
     data : {<<>>, <<5>>, Rep(171, MaxDataLen)},
     access_list : AccessListSamples, authorization_list : AuthListSamples,
     y_parity : {0, 1}, r : RSamples, s : {Rep(34, 32)}]

AuthInputs ==
    [chain_id : U64Samples,
     address : {AddrDefaultDelegate, AddrLegacyTo, AddrWithFive},
     nonce : {<<>>, <<5>>, <<1, 0>>}, key : KeySamples]

Objects ==
    {[kind |-> "legacy", tx |-> t, chain_id |-> c] :
        t \in LegacyTxs, c \in U64Samples}
    \cup {[kind |-> "1559", tx |-> t] : t \in Eip1559Txs}
    \cup {[kind |-> "7702", tx |-> t] : t \in Eip7702Txs}
    \cup {[kind |-> "auth", in |-> a] : a \in AuthInputs}

\* ------------------------------------------------ state
VARIABLES
    obj,            \* the object the encoders are applied to
    unsignedBytes,  \* its signing preimage, <<>> until produced
    signedBytes,    \* its signed / stored serialisation, <<>> until produced
    authz,          \* the Authorization7702 built by new, <<>> until built
    lastSig         \* the signature obtained for obj, NoSig until signed

codecVars == <<obj, unsignedBytes, signedBytes, authz, lastSig>>

\* main: its arguments, its locals, the JSON-RPC requests it has issued
VARIABLES
    pc,             \* the position of main
    args,           \* Args {tx_type, delegate_to}
    from_addr,      \* <<>> until derived
    nonce_value,
    second_address,
    second_nonce,
    delegate_to,
    authorization,  \* <<>> until built, then <<Authorization7702>>
    authSignature,  \* the local `signature` of Authorization7702::new
    tx,             \* <<>> until built, then <<transaction>>
    unsigned_rlp,
    signature,
    raw_tx_hex,
    requests,       \* the JSON-RPC requests sent so far, in order
    outcome,        \* "running", "ok" (Ok(())), "err" (Err(_)), "panic"
    failure,        \* what the run failed with, "" while there is none
    trace           \* the steps main has completed, in order

locals7702 ==
    <<second_address, second_nonce, delegate_to, authorization, authSignature>>
mainVars ==
    <<pc, args, from_addr, nonce_value, locals7702, tx, unsigned_rlp,
      signature, raw_tx_hex, requests, outcome, failure, trace>>
vars == <<codecVars, mainVars>>

NoSig == [digest |-> <<>>, key |-> "", recovery_id |-> 0, rsig |-> <<>>]

\* main not started (the codec specification leaves it so)
MainIdle ==
    /\ pc = "idle" /\ args = [tx_type |-> "", delegate_to |-> None]
    /\ from_addr = <<>> /\ nonce_value = <<>>
    /\ second_address = <<>> /\ second_nonce = <<>> /\ delegate_to = <<>>
    /\ authorization = <<>> /\ authSignature = NoSig
    /\ tx = <<>> /\ unsigned_rlp = <<>> /\ signature = NoSig
    /\ raw_tx_hex = <<>> /\ requests = <<>>
    /\ outcome = "running" /\ failure = "" /\ trace = <<>>

\* no object under the encoders (the specification of main leaves it so)
CodecIdle ==
    /\ obj = [kind |-> "none"]
    /\ unsignedBytes = <<>> /\ signedBytes = <<>>
    /\ authz = <<>> /\ lastSig = NoSig

CodecInit ==
    /\ obj \in Objects
    /\ unsignedBytes = <<>>
    /\ signedBytes = <<>>
    /\ authz = <<>>
    /\ lastSig = NoSig
    /\ MainIdle

DoLegacyEncodeUnsigned ==
    /\ obj.kind = "legacy" /\ unsignedBytes = <<>>
    /\ unsignedBytes' = LegacyRlpEncodeUnsigned(obj.tx, obj.chain_id)
    /\ UNCHANGED <<obj, signedBytes, authz, lastSig, mainVars>>

DoLegacyEncodeSigned ==
    /\ obj.kind = "legacy" /\ signedBytes = <<>>
    /\ signedBytes' = LegacyRlpEncodeSigned(obj.tx)
    /\ UNCHANGED <<obj, unsignedBytes, authz, lastSig, mainVars>>

DoEip1559EncodeUnsigned ==
    /\ obj.kind = "1559" /\ unsignedBytes = <<>>
    /\ unsignedBytes' = Eip1559RlpEncodeUnsigned(obj.tx)
    /\ UNCHANGED <<obj, signedBytes, authz, lastSig, mainVars>>

\* the sign-and-embed step of main's 1559 branch, on any transaction
DoEip1559SignEmbed ==
    /\ obj.kind = "1559" /\ unsignedBytes # <<>> /\ signedBytes = <<>>
    /\ lastSig = NoSig
    /\ \E c \in SigChoices :
        LET sig == SignRecoverable(keccak256(unsignedBytes), "key1", c)
        IN  /\ lastSig' = sig
            /\ obj' = [obj EXCEPT !.tx = Embed1559(obj.tx, sig)]
    /\ UNCHANGED <<unsignedBytes, signedBytes, authz, mainVars>>

DoEip1559EncodeSigned ==
    /\ obj.kind = "1559" /\ signedBytes = <<>>
    /\ signedBytes' = Eip1559RlpEncodeSigned(obj.tx)
    /\ UNCHANGED <<obj, unsignedBytes, authz, lastSig, mainVars>>

DoEip7702EncodeUnsigned ==
    /\ obj.kind = "7702" /\ unsignedBytes = <<>>
    /\ unsignedBytes' = Eip7702RlpEncodeUnsigned(obj.tx)
    /\ UNCHANGED <<obj, signedBytes, authz, lastSig, mainVars>>

DoEip7702EncodeSigned ==
    /\ obj.kind = "7702" /\ signedBytes = <<>>
    /\ signedBytes' = Eip7702RlpEncodeSigned(obj.tx)
    /\ UNCHANGED <<obj, unsignedBytes, authz, lastSig, mainVars>>

DoAuthorizationNew ==
    /\ obj.kind = "auth" /\ authz = <<>>
    /\ \E c \in SigChoices :
        LET a == obj.in IN
        /\ unsignedBytes' = AuthorizationPreimage(a.chain_id, a.address, a.nonce)
        /\ lastSig' = AuthorizationSignature(a.chain_id, a.address, a.nonce, a.key, c)
        /\ authz' = <<AuthorizationNew(a.chain_id, a.address, a.nonce, a.key, c)>>
    /\ UNCHANGED <<obj, signedBytes, mainVars>>

DoAuthorizationEncode ==
    /\ obj.kind = "auth" /\ authz # <<>> /\ signedBytes = <<>>
    /\ signedBytes' = AuthorizationEncode(authz[1])
    /\ UNCHANGED <<obj, unsignedBytes, authz, lastSig, mainVars>>

CodecNext ==
    \/ DoLegacyEncodeUnsigned
    \/ DoLegacyEncodeSigned
    \/ DoEip1559EncodeUnsigned
    \/ DoEip1559SignEmbed
    \/ DoEip1559EncodeSigned
    \/ DoEip7702EncodeUnsigned
    \/ DoEip7702EncodeSigned
    \/ DoAuthorizationNew
    \/ DoAuthorizationEncode

CodecSpec == CodecInit /\ [][CodecNext]_vars

\* ------------------------------------------------ main
\* Strings are sequences of one-character strings.
HexDigits ==
    <<"0", "1", "2", "3", "4", "5", "6", "7",
      "8", "9", "a", "b", "c", "d", "e", "f">>
UpperHexDigits ==
    <<"0", "1", "2", "3", "4", "5", "6", "7",
      "8", "9", "A", "B", "C", "D", "E", "F">>

\* hex::encode
HexEncodeBytes(bytes) ==
    [i \in 1..(2 * Len(bytes)) |->
        IF i % 2 = 1 THEN HexDigits[(bytes[(i + 1) \div 2] \div 16) + 1]
        ELSE HexDigits[(bytes[i \div 2] % 16) + 1]]

\* format!("0x{}", hex::encode(bytes))
FormatRawTx(bytes) == <<"0", "x">> \o HexEncodeBytes(bytes)

\* format!("0x{:x}", addr)
FormatAddress(addr) == <<"0", "x">> \o HexEncodeBytes(addr)

IsHexDigit(ch) ==
    \E i \in 1..16 : HexDigits[i] = ch \/ UpperHexDigits[i] = ch
HexDigitValue(ch) ==
    (CHOOSE i \in 1..16 : HexDigits[i] = ch \/ UpperHexDigits[i] = ch) - 1

\* str.trim_start_matches("0x")
RECURSIVE TrimStart0x(_)
TrimStart0x(str) ==
    IF Len(str) >= 2 /\ str[1] = "0" /\ str[2] = "x"
    THEN TrimStart0x(SubSeq(str, 3, Len(str)))
    ELSE str

RECURSIVE HexDigitsToNat(_)
HexDigitsToNat(str) ==
    IF str = <<>> THEN 0
    ELSE HexDigitsToNat(SubSeq(str, 1, Len(str) - 1)) * 16
         + HexDigitValue(str[Len(str)])

\* U256::from_str_radix(nonce_hex.trim_start_matches("0x"), 16).unwrap_or_default()
ParseNonce(nonce_hex) ==
    LET digits == TrimStart0x(nonce_hex) IN
    IF digits # <<>> /\ \A i \in 1..Len(digits) : IsHexDigit(digits[i])
    THEN U256From(HexDigitsToNat(digits))
    ELSE <<>>

\* hex decoding of an even number of hex digits
HexDecodeBytes(str) ==
    [i \in 1..(Len(str) \div 2) |->
        HexDigitValue(str[2 * i - 1]) * 16 + HexDigitValue(str[2 * i])]

\* Address::from_hex(s): Ok as <<address>>, Err as <<>>
AddressFromHex(str) ==
    LET digits == IF Len(str) >= 2 /\ str[1] = "0" /\ str[2] = "x"
                  THEN SubSeq(str, 3, Len(str)) ELSE str
    IN  IF Len(digits) = 40 /\ \A i \in 1..40 : IsHexDigit(digits[i])
        THEN <<HexDecodeBytes(digits)>>
        ELSE <<>>

\* "0x4F747741EF10551969F9688a8264FC6bb337fA5f"
DefaultDelegateHex ==
    <<"0", "x", "4", "F", "7", "4", "7", "7", "4", "1", "E", "F", "1", "0",
      "5", "5", "1", "9", "6", "9", "F", "9", "6", "8", "8", "a", "8", "2",
      "6", "4", "F", "C", "6", "b", "b", "3", "3", "7", "f", "A", "5", "f">>

\* the two hard-coded private keys (lines 405 and 487), by name
PrivateKey == "key1"
SecondPkey == "key2"

\* address_from_pkey: the address of a key is a fixed 20-byte value; the
\* public-key derivation and its hash are not computed, each key has its own.
address_from_pkey(key) ==
    IF key = PrivateKey THEN <<1>> \o Rep(17, 19) ELSE <<2>> \o Rep(34, 19)

\* what the node can answer to eth_getTransactionCount
NonceReplies ==
    {[kind |-> "result", result |-> <<"0", "x">> \o <<HexDigits[n + 1]>>] :
        n \in 0..MaxNonce}
    \cup {[kind |-> "result", result |-> <<"0", "x">>],
          [kind |-> "no_result", result |-> <<>>],
          [kind |-> "transport_error", result |-> <<>>]}

\* what can come back from eth_sendRawTransaction
SendReplies == {"result", "error", "transport_error"}

TxTypeArgs == <<"legacy", "1559", "7702", "blob">>
DelegateArgs ==
    {None, Some(FormatAddress(AddrWithFive)), Some(<<"n", "o", "p", "e">>)}

\* get_nonce's request
NonceRequest(addr) ==
    [method |-> "eth_getTransactionCount",
     params |-> <<FormatAddress(addr), "latest">>]

\* main's send_req
SendRequest(raw) == [method |-> "eth_sendRawTransaction", params |-> <<raw>>]

MainInit ==
    /\ pc = "start"
    /\ args \in [tx_type : {TxTypeArgs[i] : i \in 1..Len(TxTypeArgs)},
                 delegate_to : DelegateArgs]
    /\ from_addr = <<>> /\ nonce_value = <<>>
    /\ second_address = <<>> /\ second_nonce = <<>> /\ delegate_to = <<>>
    /\ authorization = <<>> /\ authSignature = NoSig
    /\ tx = <<>> /\ unsigned_rlp = <<>> /\ signature = NoSig
    /\ raw_tx_hex = <<>> /\ requests = <<>>
    /\ outcome = "running" /\ failure = "" /\ trace = <<>>

Init == CodecIdle /\ MainInit

Running(at) == pc = at /\ outcome = "running"

\* lines 405-411
DeriveSender ==
    /\ Running("start")
    /\ from_addr' = address_from_pkey(PrivateKey)
    /\ pc' = "get_nonce"
    /\ trace' = Append(trace, "derive")
    /\ UNCHANGED <<codecVars, args, nonce_value, locals7702, tx, unsigned_rlp,
                   signature, raw_tx_hex, requests, outcome, failure>>

\* line 417, get_nonce(url, from_addr): lines 344-373
GetNonce ==
    /\ Running("get_nonce")
    /\ requests' = Append(requests, NonceRequest(from_addr))
    /\ \E reply \in NonceReplies :
        IF reply.kind = "result"
        THEN /\ nonce_value' = ParseNonce(reply.result)
             /\ pc' = "dispatch"
             /\ trace' = Append(trace, "nonce")
             /\ UNCHANGED <<outcome, failure>>
        ELSE /\ outcome' = "panic"
             /\ failure' = reply.kind
             /\ UNCHANGED <<nonce_value, pc, trace>>
    /\ UNCHANGED <<codecVars, args, from_addr, locals7702, tx, unsigned_rlp,
                   signature, raw_tx_hex>>

\* lines 423-435
LegacyBuild ==
    /\ Running("dispatch") /\ args.tx_type = "legacy"
    /\ tx' = <<[nonce |-> nonce_value, gas_price |-> U256From(GasPrice),
                gas_limit |-> U256From(GasLimit), to |-> Some(AddrLegacyTo),
                value |-> OneEth, data |-> <<>>, v |-> 0, r |-> <<>>,
                s |-> <<>>]>>
    /\ pc' = "legacy_sign"
    /\ trace' = Append(trace, "build")
    /\ UNCHANGED <<codecVars, args, from_addr, nonce_value, locals7702,
                   unsigned_rlp, signature, raw_tx_hex, requests, outcome,
                   failure>>

\* lines 438-444
LegacySign ==
    /\ Running("legacy_sign")
    /\ unsigned_rlp' = LegacyRlpEncodeUnsigned(tx[1], ChainId)
    /\ \E c \in SigChoices :
        signature' = SignRecoverable(keccak256(unsigned_rlp'), PrivateKey, c)
    /\ pc' = "legacy_embed"
    /\ trace' = Append(trace, "sign")
    /\ UNCHANGED <<codecVars, args, from_addr, nonce_value, locals7702, tx,
                   raw_tx_hex, requests, outcome, failure>>

\* lines 445-449
LegacyEmbed ==
    /\ Running("legacy_embed")
    /\ tx' = <<EmbedLegacy(tx[1], signature, ChainId)>>
    /\ pc' = "legacy_encode"
    /\ trace' = Append(trace, "embed")
    /\ UNCHANGED <<codecVars, args, from_addr, nonce_value, locals7702,
                   unsigned_rlp, signature, raw_tx_hex, requests, outcome,
                   failure>>

\* lines 452-455
LegacyEncode ==
    /\ Running("legacy_encode")
    /\ raw_tx_hex' = FormatRawTx(LegacyRlpEncodeSigned(tx[1]))
    /\ pc' = "send"
    /\ trace' = Append(trace, "encode")
    /\ UNCHANGED <<codecVars, args, from_addr, nonce_value, locals7702, tx,
                   unsigned_rlp, signature, requests, outcome, failure>>

\* lines 457-472
Eip1559Build ==
    /\ Running("dispatch") /\ args.tx_type = "1559"
    /\ tx' = <<[chain_id |-> ChainId, nonce |-> nonce_value,
                max_priority_fee_per_gas |-> U256From(GasPrice),
                max_fee_per_gas |-> U256From(GasPrice),
                gas_limit |-> U256From(GasLimit), to |-> Some(AddrTypedTo),
                value |-> OneEth, data |-> <<>>, access_list |-> <<>>,
                y_parity |-> 0, r |-> <<>>, s |-> <<>>]>>
    /\ pc' = "1559_sign"
    /\ trace' = Append(trace, "build")
    /\ UNCHANGED <<codecVars, args, from_addr, nonce_value, locals7702,
                   unsigned_rlp, signature, raw_tx_hex, requests, outcome,
                   failure>>

\* lines 473-478
Eip1559Sign ==
    /\ Running("1559_sign")
    /\ unsigned_rlp' = Eip1559RlpEncodeUnsigned(tx[1])
    /\ \E c \in SigChoices :
        signature' = SignRecoverable(keccak256(unsigned_rlp'), PrivateKey, c)
    /\ pc' = "1559_embed"
    /\ trace' = Append(trace, "sign")
    /\ UNCHANGED <<codecVars, args, from_addr, nonce_value, locals7702, tx,
                   raw_tx_hex, requests, outcome, failure>>

\* lines 479-481
Eip1559Embed ==
    /\ Running("1559_embed")
    /\ tx' = <<Embed1559(tx[1], signature)>>
    /\ pc' = "1559_encode"
    /\ trace' = Append(trace, "embed")
    /\ UNCHANGED <<codecVars, args, from_addr, nonce_value, locals7702,
                   unsigned_rlp, signature, raw_tx_hex, requests, outcome,
                   failure>>

\* lines 482-485
Eip1559Encode ==
    /\ Running("1559_encode")
    /\ raw_tx_hex' = FormatRawTx(Eip1559RlpEncodeSigned(tx[1]))
    /\ pc' = "send"
    /\ trace' = Append(trace, "encode")
    /\ UNCHANGED <<codecVars, args, from_addr, nonce_value, locals7702, tx,
                   unsigned_rlp, signature, requests, outcome, failure>>

\* lines 487-488
SecondAddress ==
    /\ Running("dispatch") /\ args.tx_type = "7702"
    /\ second_address' = address_from_pkey(SecondPkey)
    /\ pc' = "second_nonce"
    /\ trace' = Append(trace, "second_address")
    /\ UNCHANGED <<codecVars, args, from_addr, nonce_value, second_nonce,
                   delegate_to, authorization, authSignature, tx,
                   unsigned_rlp, signature, raw_tx_hex, requests, outcome,
                   failure>>

\* line 489, get_nonce(url, second_address)
SecondNonce ==
    /\ Running("second_nonce")
    /\ requests' = Append(requests, NonceRequest(second_address))
    /\ \E reply \in NonceReplies :
        IF reply.kind = "result"
        THEN /\ second_nonce' = ParseNonce(reply.result)
             /\ pc' = "delegate"
             /\ trace' = Append(trace, "second_nonce")
             /\ UNCHANGED <<outcome, failure>>
        ELSE /\ outcome' = "panic"
             /\ failure' = reply.kind
             /\ UNCHANGED <<second_nonce, pc, trace>>
    /\ UNCHANGED <<codecVars, args, from_addr, nonce_value, second_address,
                   delegate_to, authorization, authSignature, tx,
                   unsigned_rlp, signature, raw_tx_hex>>

\* lines 491-495
ParseDelegate ==
    /\ Running("delegate")
    /\ LET str == IF args.delegate_to = None THEN DefaultDelegateHex
                  ELSE args.delegate_to[1]
           parsed == AddressFromHex(str)
       IN  IF parsed # <<>>
           THEN /\ delegate_to' = parsed[1]
                /\ pc' = "authorization"
                /\ trace' = Append(trace, "delegate")
                /\ UNCHANGED <<outcome, failure>>
           ELSE /\ outcome' = "panic"
                /\ failure' = "from_hex"
                /\ UNCHANGED <<delegate_to, pc, trace>>
    /\ UNCHANGED <<codecVars, args, from_addr, nonce_value, second_address,
                   second_nonce, authorization, authSignature, tx,
                   unsigned_rlp, signature, raw_tx_hex, requests>>

\* lines 498-504
BuildAuthorization ==
    /\ Running("authorization")
    /\ \E c \in SigChoices :
        /\ authSignature' =
               AuthorizationSignature(0, delegate_to, second_nonce, SecondPkey, c)
        /\ authorization' =
               <<AuthorizationNew(0, delegate_to, second_nonce, SecondPkey, c)>>
    /\ pc' = "7702_build"
    /\ trace' = Append(trace, "authorization")
    /\ UNCHANGED <<codecVars, args, from_addr, nonce_value, second_address,
                   second_nonce, delegate_to, tx, unsigned_rlp, signature,
                   raw_tx_hex, requests, outcome, failure>>

\* faulty variant: the transaction built with an empty authorization list
Eip7702Build_EmptyAuthorizationList ==
    /\ Running("7702_build")
    /\ tx' = <<[chain_id |-> ChainId, nonce |-> nonce_value,
                max_priority_fee_per_gas |-> U256From(GasPrice),
                max_fee_per_gas |-> U256From(GasPrice),
                gas_limit |-> U256From(GasLimit7702),
                to |-> Some(AddrTypedTo), value |-> OneEth, data |-> <<>>,
                access_list |-> <<>>, authorization_list |-> <<>>,
                y_parity |-> 0, r |-> <<>>, s |-> <<>>]>>
    /\ pc' = "7702_sign"
    /\ trace' = Append(trace, "build")
    /\ UNCHANGED <<codecVars, args, from_addr, nonce_value, locals7702,
                   unsigned_rlp, signature, raw_tx_hex, requests, outcome,
                   failure>>

\* lines 507-525
Eip7702Build ==
    /\ Running("7702_build")
    /\ tx' = <<[chain_id |-> ChainId, nonce |-> nonce_value,
                max_priority_fee_per_gas |-> U256From(GasPrice),
                max_fee_per_gas |-> U256From(GasPrice),
                gas_limit |-> U256From(GasLimit7702),
                to |-> Some(AddrTypedTo), value |-> OneEth, data |-> <<>>,
                access_list |-> <<>>,
                authorization_list |-> <<authorization[1]>>,
                y_parity |-> 0, r |-> <<>>, s |-> <<>>]>>
    /\ pc' = "7702_sign"
    /\ trace' = Append(trace, "build")
    /\ UNCHANGED <<codecVars, args, from_addr, nonce_value, locals7702,
                   unsigned_rlp, signature, raw_tx_hex, requests, outcome,
                   failure>>

\* lines 526-531
Eip7702Sign ==
    /\ Running("7702_sign")
    /\ unsigned_rlp' = Eip7702RlpEncodeUnsigned(tx[1])
    /\ \E c \in SigChoices :
        signature' = SignRecoverable(keccak256(unsigned_rlp'), PrivateKey, c)
    /\ pc' = "7702_embed"
    /\ trace' = Append(trace, "sign")
    /\ UNCHANGED <<codecVars, args, from_addr, nonce_value, locals7702, tx,
                   raw_tx_hex, requests, outcome, failure>>

\* lines 532-534
Eip7702Embed ==
    /\ Running("7702_embed")
    /\ tx' = <<Embed7702(tx[1], signature)>>
    /\ pc' = "7702_encode"
    /\ trace' = Append(trace, "embed")
    /\ UNCHANGED <<codecVars, args, from_addr, nonce_value, locals7702,
                   unsigned_rlp, signature, raw_tx_hex, requests, outcome,
                   failure>>

\* lines 535-538
Eip7702Encode ==
    /\ Running("7702_encode")
    /\ raw_tx_hex' = FormatRawTx(Eip7702RlpEncodeSigned(tx[1]))
    /\ pc' = "send"
    /\ trace' = Append(trace, "encode")
    /\ UNCHANGED <<codecVars, args, from_addr, nonce_value, locals7702, tx,
                   unsigned_rlp, signature, requests, outcome, failure>>

\* lines 539-541: any other tx_type
UnsupportedKind ==
    /\ Running("dispatch")
    /\ args.tx_type \notin {"legacy", "1559", "7702"}
    /\ outcome' = "panic"
    /\ failure' = "bad"
    /\ UNCHANGED <<codecVars, pc, args, from_addr, nonce_value, locals7702, tx,
                   unsigned_rlp, signature, raw_tx_hex, requests, trace>>

\* lines 543-563
Broadcast ==
    /\ Running("send")
    /\ requests' = Append(requests, SendRequest(raw_tx_hex))
    /\ trace' = Append(trace, "broadcast")
    /\ pc' = "done"
    /\ \E reply \in SendReplies :
        IF reply = "transport_error"
        THEN outcome' = "err" /\ failure' = "reqwest::Error"
        ELSE outcome' = "ok" /\ failure' = ""
    /\ UNCHANGED <<codecVars, args, from_addr, nonce_value, locals7702, tx,
                   unsigned_rlp, signature, raw_tx_hex>>

Next ==
    \/ DeriveSender
    \/ GetNonce
    \/ LegacyBuild
    \/ LegacySign
    \/ LegacyEmbed
    \/ LegacyEncode
    \/ Eip1559Build
    \/ Eip1559Sign
    \/ Eip1559Embed
    \/ Eip1559Encode
    \/ SecondAddress
    \/ SecondNonce
    \/ ParseDelegate
    \/ BuildAuthorization
    \/ Eip7702Build
    \/ Eip7702Sign
    \/ Eip7702Embed
    \/ Eip7702Encode
    \/ UnsupportedKind
    \/ Broadcast

Spec == Init /\ [][Next]_vars

\* ------------------------------------------------ RLP as specified (reference)
\* the minimal big-endian form of a value given with leading zero bytes
MinimalBe(u) ==
    LET k == CHOOSE j \in 0..Len(u) :
                 /\ \A i \in 1..j : u[i] = 0
                 /\ (j = Len(u) \/ u[j + 1] # 0)
    IN  SubSeq(u, k + 1, Len(u))

RECURSIVE NatBe(_)
NatBe(n) ==
    IF n = 0 THEN <<>>
    ELSE IF n < 256 THEN <<n>>
    ELSE NatBe(n \div 256) \o <<n % 256>>

RlpString(str) ==
    IF Len(str) = 1 /\ str[1] < 128 THEN str
    ELSE IF Len(str) <= 55 THEN <<128 + Len(str)>> \o str
    ELSE <<183 + Len(NatBe(Len(str)))>> \o NatBe(Len(str)) \o str

RlpList(items) ==
    LET payload == Concat(items) IN
    IF Len(payload) <= 55 THEN <<192 + Len(payload)>> \o payload
    ELSE <<247 + Len(NatBe(Len(payload)))>> \o NatBe(Len(payload)) \o payload

RlpNat(n) == RlpString(NatBe(n))
RlpU256(u) == RlpString(MinimalBe(u))
RlpTo(to) == IF to = None THEN <<128>> ELSE RlpString(to[1])
RlpAuthEntry(a) ==
    RlpList(<<RlpNat(a.chain_id), RlpString(a.address), RlpU256(a.nonce),
              RlpNat(a.y_parity), RlpU256(a.r), RlpU256(a.s)>>)

\* decoding: the first item of a byte string, and the items of a list
RECURSIVE BeToNat(_)
BeToNat(b) ==
    IF b = <<>> THEN 0
    ELSE BeToNat(SubSeq(b, 1, Len(b) - 1)) * 256 + b[Len(b)]

ItemHead(b) ==
    LET p == b[1]
        lenOf(k) == IF 1 + k <= Len(b) THEN BeToNat(SubSeq(b, 2, 1 + k))
                    ELSE Len(b)
    IN  IF p < 128 THEN [list |-> FALSE, off |-> 0, len |-> 1]
        ELSE IF p < 184 THEN [list |-> FALSE, off |-> 1, len |-> p - 128]
        ELSE IF p < 192
             THEN [list |-> FALSE, off |-> 1 + (p - 183), len |-> lenOf(p - 183)]
        ELSE IF p < 248 THEN [list |-> TRUE, off |-> 1, len |-> p - 192]
        ELSE [list |-> TRUE, off |-> 1 + (p - 247), len |-> lenOf(p - 247)]

ItemSize(b) == ItemHead(b).off + ItemHead(b).len

RECURSIVE SplitItems(_)
SplitItems(b) ==
    IF b = <<>> THEN <<>>
    ELSE IF ItemSize(b) > Len(b) THEN <<b>>
    ELSE <<SubSeq(b, 1, ItemSize(b))>>
         \o SplitItems(SubSeq(b, ItemSize(b) + 1, Len(b)))

\* b is exactly one RLP list: header, then a payload of the stated length
IsOneList(b) == b # <<>> /\ ItemHead(b).list /\ ItemSize(b) = Len(b)
IsOneString(b) == b # <<>> /\ ~ItemHead(b).list /\ ItemSize(b) = Len(b)
ListItems(b) == SplitItems(SubSeq(b, ItemHead(b).off + 1, Len(b)))

\* ------------------------------------------------ codec claims
IsTx == obj.kind \in {"legacy", "1559", "7702"}
\* the RLP list of a serialisation: all of it (legacy), or what follows the
\* type byte (typed transactions)
ListPart(bytes) == IF obj.kind = "legacy" THEN bytes ELSE Tail(bytes)
ToPosition == IF obj.kind = "legacy" THEN 4 ELSE 6

Type2Items(t) ==
    <<RlpNat(t.chain_id), RlpU256(t.nonce),
      RlpU256(t.max_priority_fee_per_gas), RlpU256(t.max_fee_per_gas),
      RlpU256(t.gas_limit), RlpTo(t.to), RlpU256(t.value),
      RlpString(t.data), <<192>>,
      RlpNat(t.y_parity), RlpU256(t.r), RlpU256(t.s)>>

Type4Items(t) ==
    <<RlpNat(t.chain_id), RlpU256(t.nonce),
      RlpU256(t.max_priority_fee_per_gas), RlpU256(t.max_fee_per_gas),
      RlpU256(t.gas_limit), RlpTo(t.to), RlpU256(t.value),
      RlpString(t.data), <<192>>,
      RlpList([i \in 1..Len(t.authorization_list) |->
                  RlpAuthEntry(t.authorization_list[i])]),
      RlpNat(t.y_parity), RlpU256(t.r), RlpU256(t.s)>>

\* C1: rlp_encode_signed of any Eip7702Transaction is the byte 0x04 followed
\* by exactly one RLP list (whose header does not count the 0x04) of the
\* thirteen items chainId, nonce, maxPriorityFeePerGas, maxFeePerGas,
\* gasLimit, to, value, data, 0xc0, authorizationList, yParity, r, s, the
\* authorization list being the RLP list of the entries in insertion order.
C1_Type4SignedLayout ==
    (obj.kind = "7702" /\ signedBytes # <<>>) =>
        /\ signedBytes[1] = 4
        /\ IsOneList(Tail(signedBytes))
        /\ ListItems(Tail(signedBytes)) = Type4Items(obj.tx)
        /\ LET al == ListItems(Tail(signedBytes))[10] IN
            /\ IsOneList(al)
            /\ ListItems(al) = [i \in 1..Len(obj.tx.authorization_list) |->
                                   RlpAuthEntry(obj.tx.authorization_list[i])]

C1_Witness ==
    /\ obj.kind = "7702" /\ signedBytes # <<>>
    /\ Len(obj.tx.authorization_list) = 2
    /\ obj.tx.authorization_list[1] # obj.tx.authorization_list[2]
    /\ obj.tx.access_list # <<>>
    /\ obj.tx.to = None

\* C2: Authorization7702::new hashes and signs exactly
\* 0x05 ++ RLP([chainId, address, nonce]); the entry encoded afterwards is
\* exactly RLP([chainId, address, nonce, yParity, r, s]) with the signed
\* chainId, address and nonce and the (yParity, r, s) of that signature, and
\* carries no magic byte.
C2_AuthorizationPreimageAndEntry ==
    (obj.kind = "auth" /\ authz # <<>>) =>
        LET a == obj.in
            z == authz[1]
            triple == <<RlpNat(a.chain_id), RlpString(a.address),
                        RlpU256(a.nonce)>>
        IN  /\ lastSig.digest = keccak256(<<5>> \o RlpList(triple))
            /\ lastSig.key = a.key
            /\ z.chain_id = a.chain_id /\ z.address = a.address
            /\ z.nonce = a.nonce
            /\ z.y_parity = lastSig.recovery_id
            /\ z.r \o z.s = lastSig.rsig /\ Len(z.r) = 32
            /\ signedBytes # <<>> =>
                /\ IsOneList(signedBytes)
                /\ ListItems(signedBytes) =
                       triple \o <<RlpNat(lastSig.recovery_id),
                                   RlpU256(SubSeq(lastSig.rsig, 1, 32)),
                                   RlpU256(SubSeq(lastSig.rsig, 33, 64))>>

C2_Witness ==
    /\ obj.kind = "auth" /\ authz # <<>> /\ signedBytes # <<>>
    /\ obj.in.chain_id = ChainId /\ obj.in.nonce = <<1, 0>>
    /\ lastSig.recovery_id = 1

LegacyHeadItems(t, items) ==
    /\ Len(items) = 9
    /\ items[1] = RlpU256(t.nonce)
    /\ items[2] = RlpU256(t.gas_price)
    /\ items[3] = RlpU256(t.gas_limit)
    /\ IF t.to # None THEN items[4] = RlpString(t.to[1])
       ELSE IsOneString(items[4])
    /\ items[5] = RlpU256(t.value)
    /\ items[6] = RlpString(t.data)

\* C3: LegacyTransaction::rlp_encode_unsigned(chain_id) is one RLP list, no
\* type byte, of nonce, gasPrice, gasLimit, to, value, data, chainId, 0, 0;
\* rlp_encode_signed is one RLP list, no type byte, with the same first six
\* items and v, r, s as the last three.  (How an absent `to` is encoded is
\* claim C6's subject: here its item is only required to be one byte-string
\* item, the same in both serialisations.)
C3_LegacyLayout ==
    obj.kind = "legacy" =>
        /\ unsignedBytes # <<>> =>
            /\ IsOneList(unsignedBytes)
            /\ LegacyHeadItems(obj.tx, ListItems(unsignedBytes))
            /\ SubSeq(ListItems(unsignedBytes), 7, 9) =
                   <<RlpNat(obj.chain_id), RlpNat(0), RlpNat(0)>>
        /\ signedBytes # <<>> =>
            /\ IsOneList(signedBytes)
            /\ LegacyHeadItems(obj.tx, ListItems(signedBytes))
            /\ SubSeq(ListItems(signedBytes), 7, 9) =
                   <<RlpNat(obj.tx.v), RlpU256(obj.tx.r), RlpU256(obj.tx.s)>>
        /\ (unsignedBytes # <<>> /\ signedBytes # <<>>) =>
            SubSeq(ListItems(unsignedBytes), 1, 6) =
                SubSeq(ListItems(signedBytes), 1, 6)

C3_Witness ==
    /\ obj.kind = "legacy" /\ unsignedBytes # <<>> /\ signedBytes # <<>>
    /\ obj.chain_id = ChainId /\ obj.tx.v = 2 * ChainId + 36
    /\ obj.tx.to # None /\ Len(obj.tx.data) = MaxDataLen

\* C5: rlp_encode_signed of any Eip1559Transaction is the byte 0x02 followed
\* by exactly one RLP list of chainId, nonce, maxPriorityFeePerGas,
\* maxFeePerGas, gasLimit, to, value, data, 0xc0, yParity, r, s; and after
\* the sign-and-embed step of main's 1559 branch the yParity field, and the
\* yParity item of the signed bytes, is the recovery id itself, 0 or 1.
C5_Type2SignedLayout ==
    obj.kind = "1559" =>
        /\ signedBytes # <<>> =>
            /\ signedBytes[1] = 2
            /\ IsOneList(Tail(signedBytes))
            /\ ListItems(Tail(signedBytes)) = Type2Items(obj.tx)
        /\ lastSig # NoSig =>
            /\ lastSig.digest = keccak256(unsignedBytes)
            /\ obj.tx.y_parity = lastSig.recovery_id
            /\ obj.tx.y_parity \in {0, 1}
        /\ (lastSig # NoSig /\ signedBytes # <<>>) =>
            /\ ListItems(Tail(signedBytes))[10] = RlpNat(lastSig.recovery_id)
            /\ ListItems(Tail(signedBytes))[10] \in {<<128>>, <<1>>}

C5_Witness ==
    /\ obj.kind = "1559" /\ signedBytes # <<>> /\ lastSig # NoSig
    /\ lastSig.recovery_id = 1 /\ obj.tx.chain_id = ChainId
    /\ obj.tx.to = Some(AddrTypedTo) /\ obj.tx.data = <<>>

\* C6: in every envelope variant, and in both the unsigned and the signed
\* serialisation, the `to` item is 0x80 when to = None and the 20 address
\* bytes as a byte string (0x94 ++ bytes) otherwise.
C6_AbsentToIsEmptyString ==
    IsTx =>
        /\ unsignedBytes # <<>> =>
            ListItems(ListPart(unsignedBytes))[ToPosition] = RlpTo(obj.tx.to)
        /\ signedBytes # <<>> =>
            ListItems(ListPart(signedBytes))[ToPosition] = RlpTo(obj.tx.to)

\* C8 as stated: for chainId = 0 the preimage begins with 0x05 and no byte of
\* the stored entry is 0x05.
C8_EntryHasNoByteFive ==
    (obj.kind = "auth" /\ obj.in.chain_id = 0 /\ authz # <<>>) =>
        /\ unsignedBytes[1] = 5
        /\ \A i \in 1..Len(signedBytes) : signedBytes[i] # 5

\* C8 as amended: for chainId = 0 the preimage begins with 0x05, and the
\* stored entry begins with an RLP list prefix (never the magic byte) and is
\* exactly that one list of six items, the first three being the three items
\* of the list that follows the magic byte in the preimage: no magic byte is
\* emitted in front of, inside or after the entry.
C8_MagicOnlyInPreimage ==
    (obj.kind = "auth" /\ obj.in.chain_id = 0 /\ authz # <<>>) =>
        /\ unsignedBytes[1] = 5
        /\ IsOneList(Tail(unsignedBytes))
        /\ Len(ListItems(Tail(unsignedBytes))) = 3
        /\ signedBytes # <<>> =>
            /\ signedBytes[1] >= 192
            /\ IsOneList(signedBytes)
            /\ Len(ListItems(signedBytes)) = 6
            /\ ListItems(signedBytes)[1] = <<128>>
            /\ SubSeq(ListItems(signedBytes), 1, 3) =
                   ListItems(Tail(unsignedBytes))

C8_Witness ==
    /\ obj.kind = "auth" /\ obj.in.chain_id = 0 /\ signedBytes # <<>>
    /\ obj.in.nonce = <<5>>
    /\ \E i \in 1..Len(signedBytes) : signedBytes[i] = 5

LegacyPreimages ==
    {LegacyRlpEncodeUnsigned(t, c) : t \in LegacyTxs, c \in U64Samples}
Eip1559Preimages == {Eip1559RlpEncodeUnsigned(t) : t \in Eip1559Txs}
Eip7702Preimages == {Eip7702RlpEncodeUnsigned(t) : t \in Eip7702Txs}
AuthPreimages ==
    {AuthorizationPreimage(a.chain_id, a.address, a.nonce) : a \in AuthInputs}

\* C9: a type-2 preimage starts with 0x02, a type-4 preimage with 0x04, an
\* authorization preimage with 0x05 and a legacy preimage with an RLP list
\* prefix (>= 0xc0); so a preimage of one kind is never a preimage of another
\* kind, whatever the field values.
C9_PreimagesDisjoint ==
    unsignedBytes # <<>> =>
        /\ obj.kind = "legacy" =>
            /\ unsignedBytes[1] >= 192
            /\ unsignedBytes \notin
                   Eip1559Preimages \cup Eip7702Preimages \cup AuthPreimages
        /\ obj.kind = "1559" =>
            /\ unsignedBytes[1] = 2
            /\ unsignedBytes \notin
                   LegacyPreimages \cup Eip7702Preimages \cup AuthPreimages
        /\ obj.kind = "7702" =>
            /\ unsignedBytes[1] = 4
            /\ unsignedBytes \notin
                   LegacyPreimages \cup Eip1559Preimages \cup AuthPreimages
        /\ obj.kind = "auth" =>
            /\ unsignedBytes[1] = 5
            /\ unsignedBytes \notin
                   LegacyPreimages \cup Eip1559Preimages \cup Eip7702Preimages

C9_Witness ==
    /\ obj.kind = "7702" /\ unsignedBytes # <<>>
    /\ obj.tx.authorization_list # <<>>
    /\ unsignedBytes \in Eip7702Preimages

\* ------------------------------------------------ claims about main
StrPayload(item) == SubSeq(item, ItemHead(item).off + 1, Len(item))
InTrace(step) == \E i \in 1..Len(trace) : trace[i] = step
SendRequests ==
    SelectSeq(requests, LAMBDA q : q.method = "eth_sendRawTransaction")
\* the bytes of a broadcast "0x..." string
RawBytes(raw) == HexDecodeBytes(SubSeq(raw, 3, Len(raw)))
SigItems(sig) ==
    <<RlpNat(sig.recovery_id), RlpU256(SubSeq(sig.rsig, 1, 32)),
      RlpU256(SubSeq(sig.rsig, 33, 64))>>

\* C4: on the legacy path the v of the signed envelope is
\* recoveryId + 2*chainId + 35, recoveryId being 0 or 1 and chainId the chain
\* id item of the unsigned payload that was hashed and signed; with chain id
\* 1337 the v that is broadcast is 2709 or 2710.
C4_LegacyV ==
    (args.tx_type = "legacy" /\ InTrace("embed")) =>
        LET hashed == signature.digest.keccak
            chain == BeToNat(StrPayload(ListItems(hashed)[7]))
        IN  /\ hashed = unsigned_rlp
            /\ signature.recovery_id \in {0, 1}
            /\ chain = 1337
            /\ tx[1].v = signature.recovery_id + 2 * chain + 35
            /\ tx[1].v \in {2709, 2710}
            /\ SendRequests # <<>> =>
                LET sent == ListItems(RawBytes(SendRequests[1].params[1]))
                IN  /\ sent[7] = RlpNat(tx[1].v)
                    /\ BeToNat(StrPayload(sent[7])) \in {2709, 2710}

C4_Witness ==
    /\ args.tx_type = "legacy" /\ SendRequests # <<>>
    /\ signature.recovery_id = 1 /\ tx[1].v = 2710

\* C7: when the requested kind is not legacy, 1559 or 7702, the run (having
\* reached the dispatch on tx_type) ends with an UnsupportedTransactionKind
\* failure returned as an error value, with no envelope built or signed and
\* no send_raw_transaction request issued.
C7_UnsupportedKindIsTypedError ==
    (/\ args.tx_type \notin {"legacy", "1559", "7702"}
     /\ pc = "dispatch" /\ outcome # "running") =>
        /\ outcome = "err"
        /\ failure = "UnsupportedTransactionKind"
        /\ tx = <<>> /\ signature = NoSig
        /\ SendRequests = <<>>

StepRank(step) ==
    CASE step = "derive" -> 1
      [] step = "nonce" -> 2
      [] step = "second_address" -> 3
      [] step = "second_nonce" -> 4
      [] step = "delegate" -> 5
      [] step = "authorization" -> 6
      [] step = "build" -> 7
      [] step = "sign" -> 8
      [] step = "embed" -> 9
      [] step = "encode" -> 10
      [] step = "broadcast" -> 11

Requires(step, earlier) == InTrace(step) => InTrace(earlier)

\* C10: in every run of main the sender address is derived, then its nonce
\* fetched, then the unsigned envelope built with that nonce, then hashed and
\* signed, then the signature embedded, then the signed bytes broadcast.
\* send_raw_transaction is issued at most once, and only with an envelope
\* whose body is the body of the preimage that was hashed and whose signature
\* items are those of the signature over that preimage; a run that fails
\* before that point broadcasts nothing.  On the 7702 path the preimage the
\* outer signature covers already holds the signed authorization entry
\* (second key, second account's nonce).
C10_RunOrder ==
    /\ \A i, j \in 1..Len(trace) :
        i < j => StepRank(trace[i]) < StepRank(trace[j])
    /\ Requires("nonce", "derive") /\ Requires("build", "nonce")
    /\ Requires("sign", "build") /\ Requires("embed", "sign")
    /\ Requires("encode", "embed") /\ Requires("broadcast", "encode")
    /\ args.tx_type = "7702" => Requires("build", "authorization")
    /\ Len(SendRequests) <= 1
    /\ (outcome = "panic" \/ ~InTrace("broadcast")) => SendRequests = <<>>
    /\ InTrace("build") =>
        /\ requests[1] = NonceRequest(address_from_pkey(PrivateKey))
        /\ tx[1].nonce = nonce_value
    /\ SendRequests # <<>> =>
        LET raw == SendRequests[1].params[1]
            bytes == RawBytes(raw)
            hashed == signature.digest.keccak
            legacy == args.tx_type = "legacy"
            sList == IF legacy THEN bytes ELSE Tail(bytes)
            uList == IF legacy THEN hashed ELSE Tail(hashed)
            sItems == ListItems(sList)
            uItems == ListItems(uList)
            n == Len(sItems)
        IN  /\ raw[1] = "0" /\ raw[2] = "x"
            /\ signature.key = PrivateKey
            /\ IsOneList(sList) /\ IsOneList(uList)
            /\ ~legacy => bytes[1] = hashed[1]
            /\ Len(uItems) = IF legacy THEN n ELSE n - 3
            /\ SubSeq(sItems, 1, n - 3) = SubSeq(uItems, 1, n - 3)
            /\ sItems[IF legacy THEN 1 ELSE 2] = RlpU256(nonce_value)
            /\ SubSeq(sItems, n - 1, n) = SubSeq(SigItems(signature), 2, 3)
            /\ sItems[n - 2] =
                   IF legacy
                   THEN RlpNat(signature.recovery_id + 2 * ChainId + 35)
                   ELSE RlpNat(signature.recovery_id)
    /\ (args.tx_type = "7702" /\ InTrace("sign")) =>
        LET hashed == signature.digest.keccak
            al == ListItems(Tail(hashed))[10]
            triple == <<RlpNat(0), RlpString(delegate_to),
                        RlpU256(second_nonce)>>
        IN  /\ hashed = unsigned_rlp
            /\ requests[2] = NonceRequest(address_from_pkey(SecondPkey))
            /\ authSignature.key = SecondPkey
            /\ authSignature.digest = keccak256(<<5>> \o RlpList(triple))
            /\ IsOneList(al)
            /\ Len(ListItems(al)) = 1
            /\ IsOneList(ListItems(al)[1])
            /\ ListItems(ListItems(al)[1]) = triple \o SigItems(authSignature)

C10_Witness ==
    /\ args.tx_type = "7702" /\ outcome = "ok" /\ Len(SendRequests) = 1
    /\ second_nonce = <<2>> /\ nonce_value = <<1>>
    /\ authSignature.recovery_id = 1 /\ signature.recovery_id = 0

====
